---- MODULE Spec2Model ----
(***************************************************************************)
(* The transport, framing, dispatch and execution bridge of FMCPServer     *)
(* (MCPServer.cpp): the network thread's loop Run, ProcessMessage and the  *)
(* handlers it calls, the rendezvous with the game thread in               *)
(* HandleToolsCall, Start/Stop as the game thread runs them, and the        *)
(* viewport bookmark invokers.                                             *)
(*                                                                         *)
(* Text on the wire is a sequence of tokens: a newline, a piece of a JSON  *)
(* document (the whole text of a frame, or its first or second half), or   *)
(* bytes that are no JSON at all.                                          *)
(***************************************************************************)
EXTENDS Integers, Sequences, FiniteSets, TLC

\* ------------------------------------------------------------------ bounds
MaxConns == 2    \* connections the clients open in one run
MaxSends == 2    \* chunks the clients write in one run

\* --------------------------------------------------------------- constants
Null == 0                    \* nullptr, for ClientSocket and NewSocket
DefaultPort == 55557
ParseError == -32700
InvalidRequest == -32600
MethodNotFound == -32601
InvalidParams == -32602

NoString == "<absent>"       \* a JSON field that is missing or no string
EmptyString == <<>>          \* the empty FString ProcessMessage may return

Conns == 1..MaxConns
Ports == {DefaultPort}
AnyPorts == {DefaultPort, DefaultPort + 1}   \* the default port and another one

VARIABLES
    \* FMCPServer members
    ListenerSocket,   \* "nullptr" or "socket"
    ClientSocket,     \* Null or the connection the member points to
    ServerPort,
    bIsRunning,
    bShouldStop,
    Thread,           \* TRUE when the FRunnableThread handle is non-null
    \* the network thread (Run and what it calls)
    netPc,            \* "none", "loop", "poll", "closeold", "assign", "client",
                      \* "msgs", "wait", "done"
    NewSocket,        \* Run's local
    Messages,         \* the frames of the last read still to be processed
    readFrom,         \* the connection the last Recv read from
    call,             \* HandleToolsCall's locals while it is waiting
    ResultText,       \* HandleToolsCall's result slot
    resultWrites,     \* how often the slot was written in the current call
    CompletionEvent,  \* TRUE once triggered
    \* the game thread
    gamePc,           \* "idle", "closure", "stop_client", "stop_listener", "stop_join"
    closurePos,       \* the step of the closure the game thread is at (0: none)
    GameThreadTasks,  \* closures queued by AsyncTask(ENamedThreads::GameThread)
    StartResult,      \* what the last call of Start returned: "none" before the
                      \* first call, "true" or "false"
    Restarted,        \* the running server was started by StartServer or
                      \* RestartServer after the Stop they had called
    pendingStart,     \* the port StartServer or RestartServer will start on
                      \* once the Stop it has called returns (Null: none)
    \* the world outside
    connState,        \* per connection: "unused", "pending", "accepted", "closed"
    peerOpen,         \* per connection: the client holds its end of the live
                      \* connection open
    inbuf,            \* per connection: bytes written by the client, not yet read
    sends,            \* chunks written so far
    processed,        \* log: one record per frame of the current read that
                      \* ProcessMessage has finished
    crashed,          \* "no", or how the process died: "nullptr" (a null socket
                      \* member was used), "dangling" (a destroyed object was
                      \* used), "fault" (an invoker faulted on the game thread)
    \* the viewport bookmarks and the editor's viewport
    editor            \* a record of ViewportBookmarks, ViewportClient,
                      \* ViewLocation, ViewRotation, setSince and bookmarkCall

server == <<ListenerSocket, ClientSocket, ServerPort, bIsRunning, bShouldStop, Thread>>
net == <<netPc, NewSocket, Messages, readFrom, call, ResultText, resultWrites, CompletionEvent>>
game == <<gamePc, closurePos, GameThreadTasks, StartResult, Restarted, pendingStart>>
world == <<connState, peerOpen, inbuf, sends, processed, crashed>>
\* The fields of editor.
ViewportBookmarks == editor.ViewportBookmarks  \* TArray<FViewportBookmark>:
                                               \* element i + 1 is slot i
ViewportClient == editor.ViewportClient  \* GCurrentLevelEditingViewportClient
                                         \* is not null
ViewLocation == editor.ViewLocation      \* the viewport camera's location
ViewRotation == editor.ViewRotation      \* the viewport camera's rotation
setSince == editor.setSince          \* the slots a set_viewport_bookmark has
                                     \* saved to with no clear_bookmark since
bookmarkCall == editor.bookmarkCall  \* the last bookmark invoker that ran:
                                     \* its tool, slot argument, Slot, result,
                                     \* and whether every array access it
                                     \* made was within the array
vars == <<server, net, game, world, editor>>

\* ------------------------------------------------------------------ frames
\* A request as the client wrote it. json: the text is a JSON object; method and
\* name: the string, or NoString; params and args: the object is present.
Frame(json, method, hasId, id, params, name, args) ==
    [json |-> json, method |-> method, hasId |-> hasId, id |-> id,
     params |-> params, name |-> name, args |-> args]

Req(method, hasId, id) == Frame(TRUE, method, hasId, id, FALSE, NoString, FALSE)
Call(hasId, id, name, args) == Frame(TRUE, "tools/call", hasId, id, TRUE, name, args)
NotJson == Frame(FALSE, NoString, FALSE, 0, FALSE, NoString, FALSE)

\* The tools/call and tools/list requests: a tool that answers, a name with no
\* branch, a tool called without arguments, a tool that may fault, a call
\* without id, without params, without name.
ToolsFrames ==
    { Req("tools/list", TRUE, 1),
      Call(TRUE, 2, "get_actor_list", FALSE),
      Call(TRUE, 2, "does_not_exist", FALSE),
      Call(TRUE, 2, "get_actor_components", FALSE),
      Call(TRUE, 2, "execute_console_command", TRUE),
      Call(FALSE, 0, "get_actor_list", FALSE),
      Frame(TRUE, "tools/call", TRUE, 2, FALSE, NoString, FALSE),
      Frame(TRUE, "tools/call", TRUE, 2, TRUE, NoString, FALSE) }

\* The other shapes of frame: each method with and without id, a method that
\* differs in case only, an unknown method, no method, no JSON, and one call.
Frames ==
    { Req(m, TRUE, 1) : m \in {"initialize", "INITIALIZE", "tools/list",
                               "notifications/initialized", "resources/list", NoString} }
    \cup { Req(m, FALSE, 0) : m \in {"initialize", "notifications/initialized",
                                      "resources/list"} }
    \cup { Call(TRUE, 2, "get_actor_list", FALSE),
           Frame(TRUE, NoString, TRUE, 1, TRUE, "get_actor_list", FALSE),
           NotJson }

\* The frames a client may write in two pieces.
SplitFrames == { Req("initialize", TRUE, 1) }

NL == [t |-> "nl"]
Junk == [t |-> "junk"]
Text(f, part) == [t |-> "text", frame |-> f, part |-> part]

\* What one write of a client puts on the wire.
Chunks ==
    { <<Text(f, "whole"), NL>> : f \in Frames }
    \cup { <<NL>> }                              \* an empty line
    \cup { <<Text(f, "head")>> : f \in SplitFrames }
    \cup { <<Text(f, "tail"), NL>> : f \in SplitFrames }

ToolsChunks == { <<Text(f, "whole"), NL>> : f \in ToolsFrames }

\* The writes that differ in what the bridge does with them: a reply at once, no
\* reply, a call whose invoker returns or faults.
BridgeChunks ==
    { <<Text(f, "whole"), NL>> :
        f \in { Req("initialize", TRUE, 1), Req("notifications/initialized", FALSE, 0),
                Call(TRUE, 2, "execute_console_command", TRUE) } }

\* The writes that reach the rendezvous.
CallChunks ==
    { <<Text(f, "whole"), NL>> : f \in { Call(TRUE, 2, "execute_console_command", TRUE) } }

\* ------------------------------------------------------ framing and parsing
RECURSIVE ParseIntoArrayFrom(_, _, _)
ParseIntoArrayFrom(text, cur, acc) ==
    IF text = <<>>
    THEN IF cur = <<>> THEN acc ELSE Append(acc, cur)
    ELSE IF Head(text).t = "nl"
         THEN ParseIntoArrayFrom(Tail(text), <<>>,
                                 IF cur = <<>> THEN acc ELSE Append(acc, cur))
         ELSE ParseIntoArrayFrom(Tail(text), Append(cur, Head(text)), acc)

\* FString::ParseIntoArray(Messages, "\n", true): the segments between
\* newlines, empty ones culled; what follows the last newline is a segment too.
ParseIntoArray(text) == ParseIntoArrayFrom(text, <<>>, <<>>)

\* The segment is the complete text of one frame.
IsCompleteText(seg) ==
    \/ Len(seg) = 1 /\ seg[1].t = "text" /\ seg[1].part = "whole"
    \/ /\ Len(seg) = 2
       /\ seg[1].t = "text" /\ seg[1].part = "head"
       /\ seg[2].t = "text" /\ seg[2].part = "tail"
       /\ seg[1].frame = seg[2].frame

\* A parser that takes any complete text for a JSON object.
DeserializeLenient(seg) == IsCompleteText(seg)

\* FJsonSerializer::Deserialize(Reader, JsonObject) && JsonObject.IsValid()
Deserialize(seg) == IsCompleteText(seg) /\ seg[1].frame.json

\* ---------------------------------------------------------------- responses
CreateSuccessResponse(Id, Result) == [jsonrpc |-> "2.0", id |-> Id, result |-> Result]

\* An error response built with its two numbers in each other's place.
CreateErrorResponseSwapped(Id, Code, Message) ==
    [jsonrpc |-> "2.0", id |-> Code, error |-> [code |-> Id, message |-> Message]]

CreateErrorResponse(Id, Code, Message) ==
    [jsonrpc |-> "2.0", id |-> Id, error |-> [code |-> Code, message |-> Message]]

ProtocolVersion == "2024-11-05"

\* A handshake that is accepted once per read only.
HandleInitializeOnce(Id) ==
    IF \E i \in DOMAIN processed : "result" \in DOMAIN processed[i].resp
                                   /\ "protocolVersion" \in DOMAIN processed[i].resp.result
    THEN CreateErrorResponse(Id, InvalidRequest, "Already initialized")
    ELSE CreateSuccessResponse(Id,
            [protocolVersion |-> ProtocolVersion,
             capabilities |-> [tools |-> <<>>],
             serverInfo |-> [name |-> "ue5-mcp-bridge", version |-> "3.2.0"]])

HandleInitialize(Id) ==
    CreateSuccessResponse(Id,
        [protocolVersion |-> ProtocolVersion,
         capabilities |-> [tools |-> <<>>],
         serverInfo |-> [name |-> "ue5-mcp-bridge", version |-> "3.2.0"]])

\* The names each Register*Tools function adds to the list, in its order.
RegisterActorTools ==
    <<"get_actor_list", "spawn_actor", "delete_actor", "get_actor_properties",
      "set_actor_property", "find_actors_by_class", "find_actors_by_tag",
      "find_actors_by_name", "duplicate_actor", "set_actor_visibility",
      "snap_actor_to_ground", "rename_actor", "add_actor_tag", "remove_actor_tag",
      "get_actor_tags", "set_actor_mobility", "get_actor_mobility",
      "attach_actor_to_actor", "detach_actor">>
RegisterSelectionTools ==
    <<"select_actors", "get_selected_actors", "clear_selection", "focus_on_actor">>
RegisterViewportTools ==
    <<"get_viewport_camera", "set_viewport_camera", "take_screenshot", "set_view_mode",
      "get_view_mode", "pilot_actor", "stop_piloting", "set_viewport_realtime",
      "set_viewport_stats">>
RegisterLevelTools ==
    <<"get_current_level", "load_level", "save_level">>
RegisterPIETools ==
    <<"start_pie", "stop_pie">>
RegisterAssetTools ==
    <<"search_assets", "get_asset_info", "load_asset", "duplicate_asset", "rename_asset",
      "delete_asset", "create_folder", "get_asset_references">>
RegisterBlueprintTools ==
    <<"create_blueprint", "get_blueprint_info", "compile_blueprint",
      "spawn_blueprint_actor", "add_blueprint_variable", "remove_blueprint_variable",
      "get_blueprint_variables", "get_blueprint_functions",
      "set_blueprint_variable_default">>
RegisterMaterialTools ==
    <<"create_material_instance", "set_material_scalar", "apply_material_to_actor",
      "set_material_vector", "get_material_parameters", "replace_actor_material",
      "get_actor_materials">>
RegisterEditorTools ==
    <<"execute_console_command", "get_project_info">>
RegisterPhysicsTools ==
    <<"set_simulate_physics", "set_collision_enabled", "set_collision_profile",
      "add_impulse", "get_physics_state">>
RegisterEditorUtilityTools ==
    <<"get_editor_preference", "set_editor_preference", "run_editor_utility",
      "get_engine_info">>
RegisterBookmarkTools ==
    <<"set_viewport_bookmark", "jump_to_bookmark", "clear_bookmark", "list_bookmarks">>
RegisterComponentTools ==
    <<"get_actor_components", "get_component_properties", "set_component_transform",
      "set_component_visibility", "remove_component">>
RegisterAnimationTools ==
    <<"play_animation", "stop_animation", "get_animation_list", "create_level_sequence",
      "add_actor_to_sequence", "play_sequence", "stop_sequence", "set_sequence_time">>
RegisterAudioTools ==
    <<"play_sound_at_location", "spawn_audio_component", "set_audio_volume",
      "stop_all_sounds", "get_audio_components", "set_audio_attenuation">>
RegisterLandscapeTools ==
    <<"get_landscape_info", "get_landscape_height", "get_foliage_types",
      "add_foliage_instance", "remove_foliage_in_radius", "get_foliage_count">>

\* A list that lacks the last group.
RegisteredToolsButLandscape ==
    RegisterActorTools \o RegisterSelectionTools \o RegisterViewportTools \o RegisterLevelTools
    \o RegisterPIETools \o RegisterAssetTools \o RegisterBlueprintTools \o RegisterMaterialTools
    \o RegisterEditorTools \o RegisterPhysicsTools \o RegisterEditorUtilityTools \o RegisterBookmarkTools
    \o RegisterComponentTools \o RegisterAnimationTools \o RegisterAudioTools

\* The names HandleToolsList registers, in the order of its calls.
RegisteredTools ==
    RegisterActorTools \o RegisterSelectionTools \o RegisterViewportTools \o RegisterLevelTools
    \o RegisterPIETools \o RegisterAssetTools \o RegisterBlueprintTools \o RegisterMaterialTools
    \o RegisterEditorTools \o RegisterPhysicsTools \o RegisterEditorUtilityTools \o RegisterBookmarkTools
    \o RegisterComponentTools \o RegisterAnimationTools \o RegisterAudioTools \o RegisterLandscapeTools

\* The names the if-chain of the closure compares ToolName with, in its order.
DispatchBranches ==
    <<"get_actor_list", "spawn_actor", "delete_actor", "get_actor_properties",
      "set_actor_property", "find_actors_by_class", "find_actors_by_tag",
      "find_actors_by_name", "duplicate_actor", "set_actor_visibility",
      "snap_actor_to_ground", "rename_actor", "add_actor_tag", "remove_actor_tag",
      "get_actor_tags", "set_actor_mobility", "get_actor_mobility",
      "attach_actor_to_actor", "detach_actor", "select_actors", "get_selected_actors",
      "clear_selection", "focus_on_actor", "get_viewport_camera", "set_viewport_camera",
      "take_screenshot", "set_view_mode", "get_view_mode", "pilot_actor", "stop_piloting",
      "set_viewport_realtime", "set_viewport_stats", "get_current_level", "load_level",
      "save_level", "start_pie", "stop_pie", "search_assets", "get_asset_info",
      "load_asset", "duplicate_asset", "rename_asset", "delete_asset", "create_folder",
      "get_asset_references", "create_blueprint", "get_blueprint_info",
      "compile_blueprint", "spawn_blueprint_actor", "add_blueprint_variable",
      "remove_blueprint_variable", "get_blueprint_variables", "get_blueprint_functions",
      "set_blueprint_variable_default", "create_material_instance", "set_material_scalar",
      "apply_material_to_actor", "set_material_vector", "get_material_parameters",
      "replace_actor_material", "get_actor_materials", "execute_console_command",
      "get_project_info", "set_simulate_physics", "set_collision_enabled",
      "set_collision_profile", "add_impulse", "get_physics_state",
      "get_editor_preference", "set_editor_preference", "run_editor_utility",
      "get_engine_info", "set_viewport_bookmark", "jump_to_bookmark", "clear_bookmark",
      "list_bookmarks", "get_actor_components", "get_component_properties",
      "set_component_transform", "set_component_visibility", "remove_component",
      "play_animation", "stop_animation", "get_animation_list", "create_level_sequence",
      "add_actor_to_sequence", "play_sequence", "stop_sequence", "set_sequence_time",
      "play_sound_at_location", "spawn_audio_component", "set_audio_volume",
      "stop_all_sounds", "get_audio_components", "set_audio_attenuation",
      "get_landscape_info", "get_landscape_height", "get_foliage_types",
      "add_foliage_instance", "remove_foliage_in_radius", "get_foliage_count">>

\* A tools/list that is refused until a handshake was answered in the same read.
HandleToolsListAfterHandshake(Id) ==
    IF \E i \in DOMAIN processed : "result" \in DOMAIN processed[i].resp
                                   /\ "protocolVersion" \in DOMAIN processed[i].resp.result
    THEN CreateSuccessResponse(Id, [tools |-> RegisteredTools])
    ELSE CreateErrorResponse(Id, InvalidRequest, "Server not initialized")

HandleToolsList(Id) == CreateSuccessResponse(Id, [tools |-> RegisteredTools])

\* A response that reports the text of the call as a JSON-RPC error.
ToolsCallResponseAsError(Id, Text_) == [jsonrpc |-> "2.0", id |-> Id, error |-> Text_]

\* A response that does not carry the id of the call.
ToolsCallResponseWithoutId(Id, Text_) ==
    [jsonrpc |-> "2.0", id |-> 0,
     result |-> [content |-> <<[type |-> "text", text |-> Text_]>>]]

\* The response HandleToolsCall builds once the wait has returned.
ToolsCallResponse(Id, Text_) ==
    CreateSuccessResponse(Id, [content |-> <<[type |-> "text", text |-> Text_]>>])

\* FJsonObject::GetStringField: the empty string when the field is missing.
GetStringField(field) == IF field = NoString THEN "" ELSE field

\* FJsonObject::GetObjectField: the field's object; for a field that is missing
\* the engine logs a warning and hands out its shared empty object, which is a
\* valid pointer. "null" is the TSharedPtr that holds nothing.
GetObjectField(present) == IF present THEN "object" ELSE "empty"
IsValid(ptr) == ptr # "null"

\* FString::operator==(const TCHAR*) compares ignoring case.
ToLower(str) == IF str = "INITIALIZE" THEN "initialize" ELSE str
FStringEquals(a, b) == ToLower(a) = ToLower(b)

\* What ProcessMessage does with one segment: an immediate reply (possibly the
\* empty string), or a call that HandleToolsCall hands to the game thread.
ProcessMessage(Msg) ==
    IF ~Deserialize(Msg)
    THEN [kind |-> "reply", resp |-> CreateErrorResponse(0, ParseError, "Parse error")]
    ELSE LET J == Msg[1].frame
             Id == IF J.hasId THEN J.id ELSE 0
         IN  IF J.method = NoString
             THEN [kind |-> "reply",
                   resp |-> CreateErrorResponse(0, InvalidRequest, "Invalid Request")]
             ELSE IF FStringEquals(J.method, "initialize")
             THEN [kind |-> "reply", resp |-> HandleInitialize(Id)]
             ELSE IF FStringEquals(J.method, "tools/list")
             THEN [kind |-> "reply", resp |-> HandleToolsList(Id)]
             ELSE IF FStringEquals(J.method, "tools/call")
             THEN LET Params == GetObjectField(J.params)
                  IN  IF ~IsValid(Params)
                      THEN [kind |-> "reply",
                            resp |-> CreateErrorResponse(Id, InvalidParams, "Invalid params")]
                      ELSE [kind |-> "invoke", Id |-> Id,
                            ToolName |-> IF Params = "empty" THEN ""
                                         ELSE GetStringField(J.name),
                            Args |-> IF Params = "empty" THEN GetObjectField(FALSE)
                                     ELSE GetObjectField(J.args)]
             ELSE IF FStringEquals(J.method, "notifications/initialized")
             THEN [kind |-> "reply", resp |-> EmptyString]
             ELSE [kind |-> "reply",
                   resp |-> CreateErrorResponse(Id, MethodNotFound, "Method not found")]

\* ----------------------------------------------------------------- invokers
Fault == "<fault>"    \* the invoker does not return: a fatal error, a null pointer

\* The branch of the if-chain that ToolName takes: the index of the first name
\* it equals, 0 for the final else.
Branch(ToolName) ==
    LET taken == { i \in DOMAIN DispatchBranches :
                      FStringEquals(ToolName, DispatchBranches[i]) }
    IN  IF taken = {} THEN 0
        ELSE CHOOSE i \in taken : \A j \in taken : i <= j

\* What the invoker of a branch can return. ExecuteGetActorList and
\* ExecuteGetActorComponents answer from the editor world; ExecuteConsoleCommand
\* hands the client's command to GEngine->Exec, which for a command such as
\* "debug crash" ends in a fatal error instead of returning.
Invoker(name, Args) ==
    IF name = "get_actor_list"
    THEN {"Found 0 actors:", "Error: No world available"}
    ELSE IF name = "get_actor_components"
    THEN IF ~IsValid(Args) THEN {Fault}
         ELSE IF Args = "empty"
         THEN {"Error: Actor '' not found", "Error: No world available"}
         ELSE {"Components of actor", "Error: No world available"}
    ELSE IF name = "execute_console_command"
    THEN IF ~IsValid(Args) THEN {"Error: Invalid arguments"}
         ELSE {"Executed: command", "Error: No world available", Fault}
    ELSE {"Result of " \o name}

\* The results the dispatch chain of the closure can produce for a tool.
InvokerOutcomes(ToolName, Args) ==
    IF Branch(ToolName) = 0
    THEN {"Unknown tool: " \o ToolName}
    ELSE Invoker(DispatchBranches[Branch(ToolName)], Args)

\* A closure that raises the event first and dispatches afterwards.
ClosureStepsTriggerFirst == <<"trigger", "dispatch">>

\* The closure of HandleToolsCall, in program order: the if-chain that assigns
\* ResultText, then CompletionEvent->Trigger().
ClosureSteps == <<"dispatch", "trigger">>

\* A wait that gives up: it returns whether or not the event was triggered.
WaitTimesOut == TRUE

\* A wait that a stop request wakes as well.
WaitReturnsOnStop == CompletionEvent \/ bShouldStop

\* CompletionEvent->Wait() has no timeout: it returns once the event is triggered.
WaitReturns == CompletionEvent

\* ------------------------------------------------------------------ sockets
\* A destroy that leaves the connection open.
KeepSocket(cs, c) == cs

\* ISocketSubsystem::DestroySocket (and FSocket::Close) on a connection.
DestroySocket(cs, c) == [cs EXCEPT ![c] = "closed"]

\* Destroying the listening socket resets the connections still in its backlog.
DestroyListener(cs) == [c \in Conns |-> IF cs[c] = "pending" THEN "closed" ELSE cs[c]]

\* A destroyed connection holds no unread bytes, and its peer's end is dead.
Unread(cs) == [c \in Conns |-> IF cs[c] = "closed" THEN <<>> ELSE inbuf[c]]
PeerEnds(cs) == [c \in Conns |-> cs[c] # "closed" /\ peerOpen[c]]

\* FSocket::Send reaches the peer when both ends are open.
SendOk(c) == connState[c] = "accepted" /\ peerOpen[c]

\* A send on the newest connection the server has, accepted or not.
SendSocketNewest ==
    IF \E c \in Conns : connState[c] = "pending"
    THEN CHOOSE c \in Conns : connState[c] = "pending"
    ELSE ClientSocket

\* The connection a response goes out on: the member ClientSocket, read at the
\* time of the Send.
SendSocket == ClientSocket

\* A loop that sends whatever ProcessMessage returned.
IsNotEmptyAlways(resp) == TRUE

\* if (!Response.IsEmpty())
IsNotEmpty(resp) == resp # EmptyString

\* A response handed to Send as it is.
WrittenWithoutNewline(resp) == <<resp>>

\* Response += TEXT("\n"): what is handed to Send.
Written(resp) == <<resp, NL>>

\* One finished frame: where it was read, what ProcessMessage returned, what
\* was handed to Send and on which socket (Null: nothing was written).
Done(Msg, resp) ==
    [from |-> readFrom, msg |-> Msg, resp |-> resp,
     wire |-> IF IsNotEmpty(resp) THEN Written(resp) ELSE <<>>,
     to |-> IF IsNotEmpty(resp) THEN SendSocket ELSE Null,
     ok |-> IsNotEmpty(resp) /\ SendSocket # Null /\ SendOk(SendSocket)]

\* ------------------------------------------------------- viewport bookmarks
NumSlots == 10               \* ViewportBookmarks.SetNum(10)
MaxInt32 == 2147483647
MinInt32 == -MaxInt32 - 1

\* A JSON number that is an integer, as GetNumberField returns it: one an int32
\* holds (fits, with its value n), or one beyond the int32s (n is its sign).
Fits(n) == [fits |-> TRUE, n |-> n]
Beyond(sign) == [fits |-> FALSE, n |-> sign]

\* The "slot" arguments the clients send: below the slots, a slot in the
\* middle, above the slots, and an integer such as 3000000000 that no int32
\* holds.
SlotArgs == {Fits(-1), Fits(4), Fits(10), Beyond(1)}
\* The "name" arguments: absent, or a string.
NameArgs == {NoString, "cam"}
BookmarkArgs == [slot : SlotArgs, name : NameArgs]

\* (int32)Args->GetNumberField(TEXT("slot")) of an integer: the number itself
\* when an int32 holds it; otherwise the conversion is undefined and the build
\* yields the smallest int32 (x86's integer indefinite) or the nearest one
\* (a saturating conversion).
ToInt32(d) ==
    IF d.fits
    THEN {d.n}
    ELSE {MinInt32, IF d.n < 0 THEN MinInt32 ELSE MaxInt32}

\* FMath::Clamp without its upper limit.
ClampBelowOnly(X, Min, Max) == IF X < Min THEN Min ELSE X
\* FMath::Clamp(X, Min, Max)
Clamp(X, Min, Max) == IF X < Min THEN Min ELSE IF X < Max THEN X ELSE Max

\* A default-constructed FViewportBookmark: bIsSet = false, an empty Name, and
\* a Location and Rotation that no constructor initializes.
DefaultBookmark ==
    [bIsSet |-> FALSE, Location |-> "uninit", Rotation |-> "uninit", Name |-> ""]

\* TArray::SetNum(n) on an array that is shorter: default-constructed elements
\* are appended.
SetNum(arr, n) ==
    arr \o [i \in 1..(n - Len(arr)) |-> DefaultBookmark]

\* The array as ExecuteSetViewportBookmark and ExecuteListBookmarks leave it
\* after `if (ViewportBookmarks.Num() < 10) ViewportBookmarks.SetNum(10);`
Initialized(arr) == IF Len(arr) < NumSlots THEN SetNum(arr, NumSlots) ELSE arr

\* ViewportBookmarks[i] is an element of the array.
IsValidIndex(arr, i) == 0 <= i /\ i < Len(arr)

\* Args->HasField("name") ? Args->GetStringField("name")
\*                        : FString::Printf("Bookmark %d", Slot)
BookmarkName(Args, Slot) ==
    IF Args.name # NoString THEN Args.name ELSE "Bookmark " \o ToString(Slot)

\* The loop of ExecuteListBookmarks from slot i on: one line per slot that is
\* set.
RECURSIVE ListLines(_, _)
ListLines(arr, i) ==
    IF i >= NumSlots
    THEN <<>>
    ELSE (IF IsValidIndex(arr, i) /\ arr[i + 1].bIsSet
          THEN << <<i, arr[i + 1].Name, arr[i + 1].Location>> >>
          ELSE <<>>) \o ListLines(arr, i + 1)

\* No bookmark invoker has run yet.
NoBookmarkCall ==
    [n |-> 0, tool |-> "none", arg |-> Fits(0), Slot |-> 0, msg |-> "", args |-> <<>>,
     inBounds |-> TRUE]

\* The record of an invoker's run: what it was called with, the slot it used,
\* the text it returned (the format's fixed part and its arguments) and
\* whether every ViewportBookmarks[...] it evaluated was within the array.
BookmarkCall(tool, arg, Slot, msg, args, inBounds) ==
    [n |-> 1 - bookmarkCall.n, tool |-> tool, arg |-> arg, Slot |-> Slot,
     msg |-> msg, args |-> args, inBounds |-> inBounds]

\* --------------------------------------------------------------------- Init
Init ==
    /\ ListenerSocket = "nullptr"
    /\ ClientSocket = Null
    /\ ServerPort = DefaultPort
    /\ bIsRunning = FALSE
    /\ bShouldStop = FALSE
    /\ Thread = FALSE
    /\ netPc = "none"
    /\ NewSocket = Null
    /\ Messages = <<>>
    /\ readFrom = Null
    /\ call = <<>>
    /\ ResultText = ""
    /\ resultWrites = 0
    /\ CompletionEvent = FALSE
    /\ gamePc = "idle"
    /\ closurePos = 0
    /\ GameThreadTasks = <<>>
    /\ StartResult = "none"
    /\ Restarted = FALSE
    /\ pendingStart = Null
    /\ connState = [c \in Conns |-> "unused"]
    /\ peerOpen = [c \in Conns |-> FALSE]
    /\ inbuf = [c \in Conns |-> <<>>]
    /\ sends = 0
    /\ processed = <<>>
    /\ crashed = "no"
    /\ editor = [ViewportBookmarks |-> <<>>, ViewportClient |-> TRUE,
                 ViewLocation |-> "L1", ViewRotation |-> "R1",
                 setSince |-> {}, bookmarkCall |-> NoBookmarkCall]

\* ------------------------------------------------------------------ clients
ClientConnect(c) ==
    /\ UNCHANGED editor
    /\ crashed = "no"
    /\ ListenerSocket = "socket"
    /\ connState[c] = "unused"
    /\ \A d \in Conns : d < c => connState[d] # "unused"
    /\ connState' = [connState EXCEPT ![c] = "pending"]
    /\ peerOpen' = [peerOpen EXCEPT ![c] = TRUE]
    /\ UNCHANGED <<server, net, game, inbuf, sends, processed, crashed>>

ClientSend(c, chunk) ==
    /\ UNCHANGED editor
    /\ crashed = "no"
    /\ connState[c] \in {"pending", "accepted"}
    /\ peerOpen[c]
    /\ sends < MaxSends
    /\ inbuf' = [inbuf EXCEPT ![c] = @ \o chunk]
    /\ sends' = sends + 1
    /\ UNCHANGED <<server, net, game, connState, peerOpen, processed, crashed>>

ClientClose(c) ==
    /\ UNCHANGED editor
    /\ crashed = "no"
    /\ peerOpen[c]
    /\ peerOpen' = [peerOpen EXCEPT ![c] = FALSE]
    /\ UNCHANGED <<server, net, game, connState, inbuf, sends, processed, crashed>>

\* ------------------------------------------------- the network thread: Run
\* while (!bShouldStop)
NetLoop ==
    /\ UNCHANGED editor
    /\ crashed = "no"
    /\ netPc = "loop"
    /\ netPc' = IF bShouldStop THEN "done" ELSE "poll"
    /\ UNCHANGED <<server, NewSocket, Messages, readFrom, call, ResultText,
                   resultWrites, CompletionEvent, game, world>>

\* ListenerSocket->HasPendingConnection(...) and ListenerSocket->Accept(...)
NetPoll ==
    /\ UNCHANGED editor
    /\ crashed = "no"
    /\ netPc = "poll"
    /\ \/ /\ ListenerSocket = "nullptr"          \* Stop has nulled the member
          /\ crashed' = "nullptr"
          /\ UNCHANGED <<netPc, NewSocket, connState>>
       \/ /\ ListenerSocket = "socket"
          /\ \E c \in Conns :
                /\ connState[c] = "pending"
                /\ NewSocket' = c
                /\ connState' = [connState EXCEPT ![c] = "accepted"]
                /\ netPc' = "closeold"
          /\ UNCHANGED crashed
       \/ /\ ListenerSocket = "socket"
          /\ \A c \in Conns : connState[c] # "pending"
          /\ netPc' = "client"
          /\ UNCHANGED <<NewSocket, connState, crashed>>
    /\ UNCHANGED <<server, Messages, readFrom, call, ResultText, resultWrites,
                   CompletionEvent, game, peerOpen, inbuf, sends, processed>>

\* if (ClientSocket) { ClientSocket->Close(); DestroySocket(ClientSocket); }
NetCloseOld ==
    /\ UNCHANGED editor
    /\ crashed = "no"
    /\ netPc = "closeold"
    /\ connState' = IF ClientSocket # Null THEN DestroySocket(connState, ClientSocket)
                    ELSE connState
    /\ inbuf' = Unread(connState')
    /\ peerOpen' = PeerEnds(connState')
    /\ netPc' = "assign"
    /\ UNCHANGED <<server, NewSocket, Messages, readFrom, call, ResultText,
                   resultWrites, CompletionEvent, game, sends, processed, crashed>>

\* ClientSocket = NewSocket;
NetAssign ==
    /\ UNCHANGED editor
    /\ crashed = "no"
    /\ netPc = "assign"
    /\ ClientSocket' = NewSocket
    /\ NewSocket' = Null
    /\ netPc' = "client"
    /\ UNCHANGED <<ListenerSocket, ServerPort, bIsRunning, bShouldStop, Thread,
                   Messages, readFrom, call, ResultText, resultWrites,
                   CompletionEvent, game, world>>

\* What the conversion of the receive buffer yields: the buffer holds no
\* terminating zero, so the string ends where the memory behind it has one.
RecvTexts(buf) == {buf, buf \o <<Junk>>}

\* if (ClientSocket) { HasPendingData ... Recv ... ParseIntoArray }
\* else-branch of HasPendingData: GetConnectionState() != SCS_Connected
NetClient ==
    /\ UNCHANGED editor
    /\ crashed = "no"
    /\ netPc = "client"
    /\ \/ /\ ClientSocket = Null
          /\ netPc' = "loop"
          /\ UNCHANGED <<ClientSocket, Messages, readFrom, connState, inbuf, peerOpen>>
       \/ /\ ClientSocket # Null
          /\ inbuf[ClientSocket] # <<>>
          /\ \E text \in RecvTexts(inbuf[ClientSocket]) :
                Messages' = ParseIntoArray(text)
          /\ readFrom' = ClientSocket
          /\ inbuf' = [inbuf EXCEPT ![ClientSocket] = <<>>]
          /\ netPc' = "msgs"
          /\ UNCHANGED <<ClientSocket, connState, peerOpen>>
       \/ /\ ClientSocket # Null
          /\ inbuf[ClientSocket] = <<>>
          /\ IF peerOpen[ClientSocket]
             THEN UNCHANGED <<ClientSocket, connState>>
             ELSE /\ connState' = DestroySocket(connState, ClientSocket)
                  /\ ClientSocket' = Null
          /\ inbuf' = Unread(connState')
          /\ peerOpen' = PeerEnds(connState')
          /\ netPc' = "loop"
          /\ UNCHANGED <<Messages, readFrom>>
    /\ UNCHANGED <<ListenerSocket, ServerPort, bIsRunning, bShouldStop, Thread,
                   NewSocket, call, ResultText, resultWrites, CompletionEvent,
                   game, sends, processed, crashed>>

\* for (const FString& Msg : Messages): the loop is over; Sleep(0.01f)
NetMessagesDone ==
    /\ UNCHANGED editor
    /\ crashed = "no"
    /\ netPc = "msgs"
    /\ Messages = <<>>
    /\ netPc' = "loop"
    /\ processed' = <<>>
    /\ readFrom' = Null
    /\ UNCHANGED <<server, NewSocket, Messages, call, ResultText,
                   resultWrites, CompletionEvent, game, connState, peerOpen,
                   inbuf, sends, crashed>>

\* A loop that takes the frames of a read from the back.
NextMsgFromBack(msgs) ==
    [Msg |-> msgs[Len(msgs)], rest |-> SubSeq(msgs, 1, Len(msgs) - 1)]

\* for (const FString& Msg : Messages): the frame the loop is at, and the
\* frames it has still to visit.
NextMsg(msgs) == [Msg |-> Head(msgs), rest |-> Tail(msgs)]

\* A loop that gives up the rest of the read when a send has failed.
RemainingUnlessSendFailed(msgs, sent) ==
    IF sent THEN NextMsg(msgs).rest ELSE <<>>

\* ClientSocket->Send(...): what it returns is not looked at, the loop goes on
\* to the next frame.
Remaining(msgs, sent) == NextMsg(msgs).rest

\* A loop that drops the client after it has sent an error response.
NetReplyDropsClientOnError ==
    /\ UNCHANGED editor
    /\ crashed = "no"
    /\ netPc = "msgs"
    /\ Messages # <<>>
    /\ SendSocket # Null
    /\ LET Msg == NextMsg(Messages).Msg
           R == ProcessMessage(Msg)
       IN  /\ R.kind = "reply"
           /\ processed' = Append(processed, Done(Msg, R.resp))
           /\ Messages' = NextMsg(Messages).rest
           /\ IF "error" \in DOMAIN R.resp
              THEN /\ connState' = DestroySocket(connState, ClientSocket)
                   /\ ClientSocket' = Null
              ELSE UNCHANGED <<ClientSocket, connState>>
    /\ UNCHANGED <<ListenerSocket, ServerPort, bIsRunning, bShouldStop, Thread,
                   netPc, NewSocket, readFrom, call, ResultText, resultWrites,
                   CompletionEvent, game, peerOpen, inbuf, sends, crashed>>

\* ProcessMessage(Msg) returns at once; a non-empty Response is sent.
NetReply ==
    /\ UNCHANGED editor
    /\ crashed = "no"
    /\ netPc = "msgs"
    /\ Messages # <<>>
    /\ LET Msg == NextMsg(Messages).Msg
           R == ProcessMessage(Msg)
       IN  /\ R.kind = "reply"
           /\ IF IsNotEmpty(R.resp) /\ SendSocket = Null
              THEN /\ crashed' = "nullptr"         \* ClientSocket->Send on nullptr
                   /\ UNCHANGED <<Messages, processed>>
              ELSE /\ processed' = Append(processed, Done(Msg, R.resp))
                   /\ Messages' = Remaining(Messages, ~IsNotEmpty(R.resp)
                                                        \/ Done(Msg, R.resp).ok)
                   /\ UNCHANGED crashed
    /\ UNCHANGED <<server, netPc, NewSocket, readFrom, call, ResultText,
                   resultWrites, CompletionEvent, game, connState, peerOpen,
                   inbuf, sends>>

\* HandleToolsCall up to CompletionEvent->Wait(): the locals, the event from
\* the pool, AsyncTask(ENamedThreads::GameThread, [&]() {...})
NetSubmit ==
    /\ UNCHANGED editor
    /\ crashed = "no"
    /\ netPc = "msgs"
    /\ Messages # <<>>
    /\ LET Msg == NextMsg(Messages).Msg
           R == ProcessMessage(Msg)
       IN  /\ R.kind = "invoke"
           /\ call' = [Id |-> R.Id, ToolName |-> R.ToolName, Args |-> R.Args]
    /\ ResultText' = ""
    /\ resultWrites' = 0
    /\ CompletionEvent' = FALSE
    /\ GameThreadTasks' = Append(GameThreadTasks, "HandleToolsCall")
    /\ netPc' = "wait"
    /\ UNCHANGED <<server, NewSocket, Messages, readFrom, gamePc, closurePos,
                   StartResult, Restarted, pendingStart, world>>

\* CompletionEvent->Wait() returns; the response is built from ResultText and sent.
NetWake ==
    /\ UNCHANGED editor
    /\ crashed = "no"
    /\ netPc = "wait"
    /\ WaitReturns
    /\ LET resp == ToolsCallResponse(call.Id, ResultText)
       IN  IF SendSocket = Null
           THEN /\ crashed' = "nullptr"
                /\ UNCHANGED <<processed, Messages, netPc, call, ResultText,
                               resultWrites, CompletionEvent>>
           ELSE /\ processed' = Append(processed, Done(NextMsg(Messages).Msg, resp))
                /\ Messages' = Remaining(Messages, Done(NextMsg(Messages).Msg, resp).ok)
                /\ call' = <<>>                   \* the locals go out of scope,
                /\ ResultText' = ""               \* the event goes back to the pool
                /\ resultWrites' = 0
                /\ CompletionEvent' = FALSE
                /\ netPc' = "msgs"
                /\ UNCHANGED crashed
    /\ UNCHANGED <<server, NewSocket, readFrom, game, connState, peerOpen, inbuf, sends>>

NetThread ==
    \/ NetLoop \/ NetPoll \/ NetCloseOld \/ NetAssign \/ NetClient
    \/ NetMessagesDone \/ NetReply \/ NetSubmit \/ NetWake

\* ------------------------------------------------------------ the game thread
\* The game thread takes the closure at the head of its queue and runs it, one
\* statement at a time. The closure captured HandleToolsCall's locals by
\* reference: it reads ToolName and Args, and writes ResultText, in place.
GameRunClosure ==
    /\ UNCHANGED editor
    /\ crashed = "no"
    /\ \/ gamePc = "idle" /\ GameThreadTasks # <<>> /\ closurePos = 0
       \/ gamePc = "closure"
    /\ LET pos == IF gamePc = "idle" THEN 1 ELSE closurePos
           last == pos = Len(ClosureSteps)
       IN  /\ \/ /\ ClosureSteps[pos] = "dispatch"
                 /\ call # <<>>
                 /\ \E o \in InvokerOutcomes(call.ToolName, call.Args) :
                       IF o = Fault
                       THEN /\ crashed' = "fault"
                            /\ UNCHANGED <<ResultText, resultWrites>>
                       ELSE /\ ResultText' = o
                            /\ resultWrites' = resultWrites + 1
                            /\ UNCHANGED crashed
                 /\ UNCHANGED CompletionEvent
              \/ /\ ClosureSteps[pos] = "dispatch"
                 /\ call = <<>>                  \* the locals are gone
                 /\ crashed' = "dangling"
                 /\ UNCHANGED <<ResultText, resultWrites, CompletionEvent>>
              \/ /\ ClosureSteps[pos] = "trigger"
                 /\ CompletionEvent' = TRUE
                 /\ UNCHANGED <<ResultText, resultWrites, crashed>>
           /\ gamePc' = IF last THEN "idle" ELSE "closure"
           /\ closurePos' = IF last THEN 0 ELSE pos + 1
           /\ GameThreadTasks' = IF last THEN Tail(GameThreadTasks) ELSE GameThreadTasks
    /\ UNCHANGED <<server, netPc, NewSocket, Messages, readFrom, call, StartResult,
                   Restarted, pendingStart,
                   connState, peerOpen, inbuf, sends, processed>>

\* A Start that does not look at bIsRunning.
AlreadyRunningUnchecked == FALSE

\* if (bIsRunning) { "Server is already running"; return false; }
AlreadyRunning == bIsRunning

\* A failure path that keeps the socket it created.
ListenerAfterFailureKept == "socket"

\* The member after a failed CreateSocket (nullptr is what it returned), Bind
\* or Listen (DestroySocket(ListenerSocket); ListenerSocket = nullptr;).
ListenerAfterFailure == "nullptr"

\* A Start that leaves the stop flag as the last Stop set it.
StopFlagAtStartKept == bShouldStop

\* bShouldStop = false; before the thread is created
StopFlagAtStart == FALSE

\* FMCPServer::Start(Port), called on the game thread.
Start(Port) ==
    /\ UNCHANGED editor
    /\ crashed = "no"
    /\ gamePc = "idle"
    /\ \/ /\ AlreadyRunning                     \* return false
          /\ StartResult' = "false"
          /\ UNCHANGED <<server, netPc, NewSocket, Messages, Restarted>>
       \/ /\ ~AlreadyRunning                    \* CreateSocket, Bind or Listen fails
          /\ ServerPort' = Port
          /\ bShouldStop' = StopFlagAtStart
          /\ ListenerSocket' = ListenerAfterFailure
          /\ StartResult' = "false"
          /\ UNCHANGED <<ClientSocket, bIsRunning, Thread, netPc, NewSocket, Messages,
                         Restarted>>
       \/ /\ ~AlreadyRunning
          /\ ServerPort' = Port
          /\ bShouldStop' = StopFlagAtStart
          /\ ListenerSocket' = "socket"
          /\ bIsRunning' = TRUE
          /\ Thread' = TRUE                      \* FRunnableThread::Create: Run starts
          /\ netPc' = "loop"
          /\ NewSocket' = Null
          /\ Messages' = <<>>
          /\ StartResult' = "true"
          /\ Restarted' = (pendingStart # Null)   \* after the module's Stop
          /\ UNCHANGED ClientSocket
    /\ pendingStart' = Null
    /\ UNCHANGED <<readFrom, call, ResultText, resultWrites, CompletionEvent,
                   gamePc, closurePos, GameThreadTasks, world>>

\* A Stop that asks the thread to stop and leaves bIsRunning as it is.
StopBeginKeepsRunning ==
    /\ UNCHANGED editor
    /\ crashed = "no"
    /\ gamePc = "idle"
    /\ bShouldStop' = TRUE
    /\ gamePc' = "stop_client"
    /\ Restarted' = FALSE
    /\ UNCHANGED <<ListenerSocket, ClientSocket, ServerPort, bIsRunning, Thread, net,
                   closurePos, GameThreadTasks, StartResult, world>>

\* FMCPServer::Stop(), called on the game thread: the two flags.
StopBegin ==
    /\ UNCHANGED editor
    /\ crashed = "no"
    /\ gamePc = "idle"
    /\ bShouldStop' = TRUE
    /\ bIsRunning' = FALSE
    /\ gamePc' = "stop_client"
    /\ Restarted' = FALSE
    /\ UNCHANGED <<ListenerSocket, ClientSocket, ServerPort, Thread, net,
                   closurePos, GameThreadTasks, StartResult, world>>

\* if (ClientSocket) { Close; DestroySocket; ClientSocket = nullptr; }
StopClient ==
    /\ UNCHANGED editor
    /\ crashed = "no"
    /\ gamePc = "stop_client"
    /\ \/ /\ ClientSocket = Null
          /\ UNCHANGED <<ClientSocket, connState, crashed>>
       \/ /\ ClientSocket # Null
          /\ connState[ClientSocket] = "accepted"
          /\ connState' = DestroySocket(connState, ClientSocket)
          /\ ClientSocket' = Null
          /\ UNCHANGED crashed
       \/ /\ ClientSocket # Null                 \* Run has destroyed it already
          /\ connState[ClientSocket] # "accepted"
          /\ \/ crashed' = "dangling" /\ UNCHANGED ClientSocket
             \/ ClientSocket' = Null /\ UNCHANGED crashed
          /\ UNCHANGED connState
    /\ inbuf' = Unread(connState')
    /\ peerOpen' = PeerEnds(connState')
    /\ gamePc' = "stop_listener"
    /\ UNCHANGED <<ListenerSocket, ServerPort, bIsRunning, bShouldStop, Thread,
                   net, closurePos, GameThreadTasks, StartResult, Restarted,
                   pendingStart, sends, processed>>

\* A Stop that leaves the listening socket open and the member set.
StopListenerLeavesSocket ==
    /\ UNCHANGED editor
    /\ crashed = "no"
    /\ gamePc = "stop_listener"
    /\ gamePc' = "stop_join"
    /\ UNCHANGED <<server, net, closurePos, GameThreadTasks, StartResult, Restarted,
                   pendingStart, world>>

\* if (ListenerSocket) { Close; DestroySocket; ListenerSocket = nullptr; }
StopListener ==
    /\ UNCHANGED editor
    /\ crashed = "no"
    /\ gamePc = "stop_listener"
    /\ IF ListenerSocket = "socket"
       THEN /\ connState' = DestroyListener(connState)
            /\ ListenerSocket' = "nullptr"
       ELSE UNCHANGED <<ListenerSocket, connState>>
    /\ inbuf' = Unread(connState')
    /\ peerOpen' = PeerEnds(connState')
    /\ gamePc' = "stop_join"
    /\ UNCHANGED <<ClientSocket, ServerPort, bIsRunning, bShouldStop, Thread,
                   net, closurePos, GameThreadTasks, StartResult, Restarted,
                   pendingStart, sends, processed, crashed>>

\* A Stop that does not wait for Run to return.
JoinReturnsAtOnce == TRUE

\* Thread->WaitForCompletion() returns once Run has returned.
JoinReturns == netPc = "done"

\* if (Thread) { Thread->WaitForCompletion(); delete Thread; Thread = nullptr; }
StopJoin ==
    /\ UNCHANGED editor
    /\ crashed = "no"
    /\ gamePc = "stop_join"
    /\ \/ /\ ~Thread
          /\ UNCHANGED <<Thread, netPc>>
       \/ /\ Thread
          /\ JoinReturns
          /\ Thread' = FALSE
          /\ netPc' = "none"
    /\ gamePc' = "idle"
    /\ UNCHANGED <<ListenerSocket, ClientSocket, ServerPort, bIsRunning,
                   bShouldStop, NewSocket, Messages, readFrom, call, ResultText,
                   resultWrites, CompletionEvent, closurePos, GameThreadTasks,
                   StartResult, Restarted, pendingStart, world>>

\* FMCPServer::Stop() called by itself, and the rest of any Stop.
Stop == (StopBegin /\ UNCHANGED pendingStart) \/ StopClient \/ StopListener \/ StopJoin

\* The module's calls of Start: StartupModule on the server it has just made,
\* StartServer after it has stopped a running one.
ModuleStart(Port) == ~bIsRunning /\ Start(Port)

GameThread == GameRunClosure \/ (\E Port \in Ports : ModuleStart(Port)) \/ Stop

Clients(conns, chunks) ==
    \/ \E c \in conns : ClientConnect(c)
    \/ \E c \in conns : \E chunk \in chunks : ClientSend(c, chunk)
    \/ \E c \in conns : ClientClose(c)

\* The server's whole life: started, stopped and restarted at any time, with
\* clients that write the frames the bridge tells apart.
Next == Clients(Conns, BridgeChunks) \/ NetThread \/ GameThread

Spec == Init /\ [][Next]_vars

\* The protocol: a server that is started and left running, with one client
\* that writes every shape of frame.
ProtocolNext ==
    \/ Clients({1}, Chunks) \/ NetThread \/ GameRunClosure
    \/ \E Port \in Ports : ModuleStart(Port)

ProtocolSpec == Init /\ [][ProtocolNext]_vars

\* The same server with one client that writes tools/list and tools/call
\* requests.
ToolsNext ==
    \/ Clients({1}, ToolsChunks) \/ NetThread \/ GameRunClosure
    \/ \E Port \in Ports : ModuleStart(Port)

ToolsSpec == Init /\ [][ToolsNext]_vars

\* The network thread is a running thread and the game thread drains its task
\* queue every tick, whenever it is not inside a call of this subsystem.
CallNext == Clients(Conns, CallChunks) \/ NetThread \/ GameThread

\* A Stop that has been called runs on: the game thread is inside it.
StopRuns == StopClient \/ StopListener \/ StopJoin

FairSpec ==
    /\ Init /\ [][CallNext]_vars
    /\ WF_vars(NetThread) /\ WF_vars(GameRunClosure) /\ WF_vars(StopRuns)

\* The server's life as any caller of the public interface may drive it: Start
\* on any port at any time, running or not, and Stop, with one client that
\* makes calls.
LifecycleNext ==
    \/ Clients({1}, CallChunks) \/ NetThread \/ GameRunClosure
    \/ (\E Port \in AnyPorts : Start(Port)) \/ Stop

LifecycleSpec == Init /\ [][LifecycleNext]_vars

\* ------------------------------------------------- the module's operations
\* FUE5MCPBridgeModule::StartServer(Port): if (MCPServer->IsRunning()) Stop();
\* return MCPServer->Start(Port);
StartServer(Port) ==
    /\ pendingStart = Null
    /\ IF bIsRunning
       THEN StopBegin /\ pendingStart' = Port
       ELSE Start(Port)

\* FUE5MCPBridgeModule::StopServer()
StopServer == pendingStart = Null /\ StopBegin /\ UNCHANGED pendingStart

\* FUE5MCPBridgeModule::RestartServer(): Port = GetServerPort(); StopServer();
\* return StartServer(Port);
RestartServer == pendingStart = Null /\ StopBegin /\ pendingStart' = ServerPort

\* The Stop that StartServer or RestartServer called has returned: Start.
StartAfterStop == pendingStart # Null /\ Start(pendingStart)

\* The server as the module drives it: the three operations in any order, each
\* run to its end before the game thread does anything else, with one client
\* that makes calls.
ModuleNext ==
    \/ Clients({1}, CallChunks) \/ NetThread
    \/ (pendingStart = Null /\ GameRunClosure)
    \/ (\E Port \in AnyPorts : StartServer(Port)) \/ StopServer \/ RestartServer
    \/ StopRuns \/ StartAfterStop

ModuleSpec == Init /\ [][ModuleNext]_vars

\* The same with both threads scheduled: the network thread takes its next
\* step, and the game thread goes on with the Stop it is in and with the Start
\* that follows it in StartServer and RestartServer.
FairModuleSpec ==
    /\ Init /\ [][ModuleNext]_vars
    /\ WF_vars(NetThread) /\ WF_vars(StopRuns) /\ WF_vars(StartAfterStop)

\* ------------------------------------------------ the bookmark invokers run
\* The closure HandleToolsCall submits calls one invoker by the tool's name
\* (set_viewport_bookmark, jump_to_bookmark, clear_bookmark, list_bookmarks);
\* the game thread runs one closure at a time.
ExecuteSetViewportBookmark(Args) ==
    /\ crashed = "no" /\ gamePc = "idle"
    /\ \E x \in ToInt32(Args.slot) :
         LET Slot == Clamp(x, 0, 9)
             Name == BookmarkName(Args, Slot)
             arr  == Initialized(ViewportBookmarks)
             Ran(msg, args, inBounds) ==
                 BookmarkCall("set_viewport_bookmark", Args.slot, Slot, msg, args,
                              inBounds)
         IN  IF ~ViewportClient
             THEN editor' = [editor EXCEPT
                      !.ViewportBookmarks = arr,
                      !.bookmarkCall = Ran("Error: No active viewport", <<>>, TRUE)]
             ELSE IF IsValidIndex(arr, Slot)
             THEN editor' = [editor EXCEPT
                      !.ViewportBookmarks =
                          [arr EXCEPT ![Slot + 1] =
                              [bIsSet |-> TRUE, Location |-> ViewLocation,
                               Rotation |-> ViewRotation, Name |-> Name]],
                      !.bookmarkCall = Ran("Bookmark %d '%s' saved at",
                                           <<Slot, Name, ViewLocation>>, TRUE),
                      !.setSince = setSince \cup {Slot}]
             ELSE \* a write past the end of the array
                  editor' = [editor EXCEPT
                      !.ViewportBookmarks = arr,
                      !.bookmarkCall = Ran("Bookmark %d '%s' saved at",
                                           <<Slot, Name, ViewLocation>>, FALSE),
                      !.setSince = setSince \cup {Slot}]
    /\ UNCHANGED <<server, net, game, world>>

ExecuteJumpToBookmark(Args) ==
    /\ crashed = "no" /\ gamePc = "idle"
    /\ \E x \in ToInt32(Args.slot) :
         LET Slot == Clamp(x, 0, 9)
             arr  == ViewportBookmarks
             Ran(msg, args, inBounds) ==
                 BookmarkCall("jump_to_bookmark", Args.slot, Slot, msg, args, inBounds)
         IN  IF Len(arr) <= Slot \/ ~arr[Slot + 1].bIsSet
             THEN editor' = [editor EXCEPT
                      !.bookmarkCall = Ran("Error: Bookmark %d is not set", <<Slot>>,
                                           Len(arr) <= Slot \/ IsValidIndex(arr, Slot))]
             ELSE IF ~ViewportClient
             THEN editor' = [editor EXCEPT
                      !.bookmarkCall = Ran("Error: No active viewport", <<>>, TRUE)]
             ELSE editor' = [editor EXCEPT
                      !.ViewLocation = arr[Slot + 1].Location,
                      !.ViewRotation = arr[Slot + 1].Rotation,
                      !.bookmarkCall = Ran("Jumped to bookmark %d '%s'",
                                           <<Slot, arr[Slot + 1].Name>>, TRUE)]
    /\ UNCHANGED <<server, net, game, world>>

ExecuteClearBookmark(Args) ==
    /\ crashed = "no" /\ gamePc = "idle"
    /\ \E x \in ToInt32(Args.slot) :
         LET Slot == Clamp(x, 0, 9)
             arr  == ViewportBookmarks
         IN  editor' = [editor EXCEPT
                 !.ViewportBookmarks =
                     IF Len(arr) > Slot /\ IsValidIndex(arr, Slot)
                     THEN [arr EXCEPT ![Slot + 1].bIsSet = FALSE, ![Slot + 1].Name = ""]
                     ELSE arr,
                 !.bookmarkCall =
                     BookmarkCall("clear_bookmark", Args.slot, Slot,
                                  "Bookmark %d cleared", <<Slot>>,
                                  Len(arr) > Slot => IsValidIndex(arr, Slot)),
                 !.setSince = setSince \ {Slot}]
    /\ UNCHANGED <<server, net, game, world>>

ExecuteListBookmarks ==
    /\ crashed = "no" /\ gamePc = "idle"
    /\ LET arr   == Initialized(ViewportBookmarks)
           lines == ListLines(arr, 0)
       IN  editor' = [editor EXCEPT
               !.ViewportBookmarks = arr,
               !.bookmarkCall =
                   BookmarkCall("list_bookmarks", Fits(0), 0,
                                IF lines = <<>>
                                THEN "Viewport Bookmarks: No bookmarks set"
                                ELSE "Viewport Bookmarks:",
                                lines,
                                \A i \in 0..(NumSlots - 1) : IsValidIndex(arr, i))]
    /\ UNCHANGED <<server, net, game, world>>

\* The editor's user moves the viewport camera, and the level editing viewport
\* comes and goes (GCurrentLevelEditingViewportClient is null without one).
CameraPoses == {<<"L1", "R1">>, <<"L2", "R2">>}

EditorMovesCamera ==
    /\ crashed = "no" /\ ViewportClient
    /\ \E pose \in CameraPoses :
         /\ <<ViewLocation, ViewRotation>> # pose
         /\ editor' = [editor EXCEPT !.ViewLocation = pose[1],
                                     !.ViewRotation = pose[2]]
    /\ UNCHANGED <<server, net, game, world>>

EditorViewportChanges ==
    /\ crashed = "no"
    /\ editor' = [editor EXCEPT !.ViewportClient = ~ViewportClient]
    /\ UNCHANGED <<server, net, game, world>>

\* The four bookmark tools called in any order with any argument, in an editor
\* whose camera moves.
BookmarkNext ==
    \/ \E Args \in BookmarkArgs : ExecuteSetViewportBookmark(Args)
    \/ \E Args \in BookmarkArgs : ExecuteJumpToBookmark(Args)
    \/ \E Args \in BookmarkArgs : ExecuteClearBookmark(Args)
    \/ ExecuteListBookmarks
    \/ EditorMovesCamera
    \/ EditorViewportChanges

BookmarkSpec == Init /\ [][BookmarkNext]_vars

\* ==================================================================== claims
FrameOf(e) == e.msg[1].frame
IsRequest(e) == Deserialize(e.msg)
IsCall(e) == ProcessMessage(e.msg).kind = "invoke"
Entries == { processed[i] : i \in DOMAIN processed }

\* The segment is the first piece of a frame whose second piece has not come.
IsHeadOnly(seg) ==
    /\ seg[1].t = "text" /\ seg[1].part = "head"
    /\ (Len(seg) = 1 \/ seg[2].t # "text")

\* C1: every frame that carries an id and has been processed got exactly one
\* response, and that response carries the frame's id.
C1_OneResponseWithSameId ==
    \A e \in Entries :
        (IsRequest(e) /\ FrameOf(e).hasId) =>
            (e.resp # EmptyString /\ e.resp.id = FrameOf(e).id)

\* C2: a request that carries no id never causes a response to be sent.
C2_NoResponseWithoutId ==
    \A e \in Entries :
        (IsRequest(e) /\ ~FrameOf(e).hasId) => e.resp = EmptyString

\* C3: the first part of a line split across two reads produces no response:
\* it stays buffered until its newline has been read.
C3_NoResponseForPartialLine ==
    \A e \in Entries : IsHeadOnly(e.msg) => e.resp = EmptyString

\* C4: ResultText is written at most once per call, and once when the event is
\* triggered; the text of every tools/call response is a result the closure
\* wrote for that tool.
C4_ResultWrittenBeforeTrigger ==
    /\ resultWrites <= 1
    /\ CompletionEvent => resultWrites = 1
    /\ \A e \in Entries :
          IsCall(e) =>
              LET R == ProcessMessage(e.msg)
              IN  /\ "result" \in DOMAIN e.resp
                  /\ e.resp.result.content[1].text
                        \in InvokerOutcomes(R.ToolName, R.Args) \ {Fault}

C4_Witness ==
    \E e \in Entries :
        IsCall(e) /\ e.ok /\ e.resp.result.content[1].text = "Executed: command"

\* C5: at most one closure of the bridge is pending or running on the game
\* thread, and only while the network thread waits for it.
C5_AtMostOneClosure ==
    /\ Len(GameThreadTasks) <= 1
    /\ GameThreadTasks # <<>> => netPc = "wait"

C5_Witness ==
    /\ netPc = "wait" /\ Len(GameThreadTasks) = 1
    /\ \E c \in Conns : connState[c] = "pending" /\ inbuf[c] # <<>>

\* C6: while the event is not triggered the network thread does nothing: it
\* stays in the wait, finishes no frame, accepts no connection and sends
\* nothing; and a call whose closure the game thread runs to its end returns.
GameThreadInStop == gamePc \in {"stop_client", "stop_listener", "stop_join"}

C6_WaitHasNoTimeout ==
    /\ [][(netPc = "wait" /\ ~CompletionEvent) =>
            /\ netPc' = "wait"
            /\ processed' = processed
            /\ Messages' = Messages
            /\ NewSocket' = NewSocket
            /\ \A c \in Conns : connState[c] = "pending" => connState'[c] # "accepted"]_vars
    /\ (netPc = "wait") ~> (netPc # "wait" \/ crashed # "no" \/ GameThreadInStop)

C6_Witness ==
    /\ netPc = "wait" /\ ~CompletionEvent /\ Len(Messages) > 1
    /\ \E c \in Conns : connState[c] = "pending"

\* C7: the game thread never waits for the network thread.
C7_GameThreadNeverWaits == ~(gamePc = "stop_join" /\ Thread /\ ~JoinReturns)

\* C8: a fault of an invoker does not escape the closure: the process lives.
C8_FaultDoesNotEscape == crashed # "fault"

\* C9: the connections the server holds are at most the one ClientSocket points
\* to, and ClientSocket moves from one connection to another only after the
\* first has been closed and destroyed.
Held == { c \in Conns : connState[c] = "accepted" /\ c # NewSocket }

C9_LastConnectWins ==
    /\ [](Held \subseteq {ClientSocket})
    /\ [][(ClientSocket # Null /\ ClientSocket' # Null /\ ClientSocket' # ClientSocket)
            => connState[ClientSocket] = "closed"]_vars

C9_Witness ==
    /\ netPc = "assign" /\ ClientSocket # Null /\ NewSocket # Null
    /\ connState[ClientSocket] = "closed" /\ connState[NewSocket] = "accepted"

\* C10: every response that was written was written on the connection its
\* request was read from.
C10_ResponseOnRequestConnection ==
    \A e \in Entries : e.to # Null => e.to = e.from

C10_Witness ==
    /\ processed # <<>>
    /\ LET e == processed[Len(processed)]
       IN  /\ IsCall(e) /\ e.ok /\ e.to = e.from
           /\ \E c \in Conns : c # e.to /\ connState[c] = "pending"

\* C11: the frames of a connection are finished in the order they arrived, one
\* at a time: a frame is finished (its response sent) only as the first of the
\* frames still to be processed, the frames still to be processed change only
\* by losing their first or, once there is none, by the next read, and a call
\* is waited for only on behalf of the first of them.
C11_ResponsesInArrivalOrder ==
    /\ [][(processed' # processed /\ processed' # <<>>) =>
            /\ Messages # <<>>
            /\ processed' = Append(processed, processed'[Len(processed')])
            /\ processed'[Len(processed')].msg = Head(Messages)
            /\ Messages' = Tail(Messages)]_vars
    /\ [][(Messages' # Messages /\ Messages # <<>>) =>
            /\ Messages' = Tail(Messages)
            /\ Len(processed') = Len(processed) + 1]_vars
    /\ [](netPc = "wait" =>
            /\ Messages # <<>>
            /\ Len(GameThreadTasks) <= 1
            /\ ProcessMessage(Head(Messages)).kind = "invoke"
            /\ ProcessMessage(Head(Messages)).Id = call.Id
            /\ ProcessMessage(Head(Messages)).ToolName = call.ToolName)

C11_Witness ==
    /\ Len(processed) = 2
    /\ processed[1].ok /\ processed[2].ok
    /\ processed[1].msg # processed[2].msg
    /\ IsCall(processed[1])

\* The frame of a finished entry is a JSON object with this method.
HasMethod(e, method) ==
    /\ IsCompleteText(e.msg) /\ FrameOf(e).json
    /\ FrameOf(e).method = method

IsError(e, code) ==
    /\ e.resp # EmptyString
    /\ "error" \in DOMAIN e.resp
    /\ e.resp.error.code = code

\* C12: a tools/call without a params object is answered with error -32602 that
\* carries the id of the request, and is not handed to the game thread.
C12_NoParamsIsInvalidParams ==
    \A e \in Entries :
        (HasMethod(e, "tools/call") /\ ~FrameOf(e).params) =>
            /\ IsError(e, InvalidParams)
            /\ e.resp.id = (IF FrameOf(e).hasId THEN FrameOf(e).id ELSE 0)

\* C13: a tools/call whose params object has no name is answered with error
\* -32602, and is not handed to the game thread.
C13_NoNameIsInvalidParams ==
    \A e \in Entries :
        (HasMethod(e, "tools/call") /\ FrameOf(e).params /\ FrameOf(e).name = NoString)
            => IsError(e, InvalidParams)

\* C14: the response to a tools/call that was handed to the game thread is a
\* success whose result is one content item of type "text": for a name no
\* branch matches the text is "Unknown tool: " and the name, otherwise it is
\* what the invoker returned, failure texts included.
C14_CallsAnswerWithSuccess ==
    \A e \in Entries :
        IsCall(e) =>
            LET R == ProcessMessage(e.msg)
            IN  /\ DOMAIN e.resp = {"jsonrpc", "id", "result"}
                /\ DOMAIN e.resp.result = {"content"}
                /\ Len(e.resp.result.content) = 1
                /\ e.resp.result.content[1].type = "text"
                /\ (\A i \in DOMAIN DispatchBranches :
                        ~FStringEquals(R.ToolName, DispatchBranches[i]))
                      => e.resp.result.content[1].text = "Unknown tool: " \o R.ToolName
                /\ (\E i \in DOMAIN DispatchBranches :
                        FStringEquals(R.ToolName, DispatchBranches[i]))
                      => e.resp.result.content[1].text
                            \in Invoker(DispatchBranches[Branch(R.ToolName)], R.Args)

C14_Witness ==
    /\ \E e \in Entries :
          /\ HasMethod(e, "tools/call") /\ FrameOf(e).name = "does_not_exist"
          /\ e.ok /\ e.resp.result.content[1].text = "Unknown tool: does_not_exist"
    /\ \E e \in Entries :
          /\ IsCall(e) /\ e.ok
          /\ e.resp.result.content[1].text = "Error: No world available"

IsUnparsable(seg) == ~(IsCompleteText(seg) /\ seg[1].frame.json)

\* C16: a frame that is no parsable JSON gets one response, the error -32700
\* with id 0, and finishing it neither closes nor replaces the client socket.
C16_ParseErrorKeepsConnection ==
    /\ [](\A e \in Entries :
            IsUnparsable(e.msg) =>
                e.resp = [jsonrpc |-> "2.0", id |-> 0,
                          error |-> [code |-> ParseError, message |-> "Parse error"]])
    /\ [][(/\ Messages # <<>> /\ IsUnparsable(Head(Messages))
           /\ processed' # processed /\ processed' # <<>>) =>
            /\ Len(processed') = Len(processed) + 1
            /\ ClientSocket' = ClientSocket
            /\ connState' = connState
            /\ peerOpen' = peerOpen]_vars

C16_Witness ==
    /\ Len(processed) = 2
    /\ IsUnparsable(processed[1].msg) /\ processed[1].ok
    /\ ~IsUnparsable(processed[2].msg) /\ processed[2].ok
    /\ processed[2].to = processed[1].to

Methods == {"initialize", "tools/list", "tools/call", "notifications/initialized"}

C18_OtherMethodIsMethodNotFound ==
    \A e \in Entries :
        (/\ IsCompleteText(e.msg) /\ FrameOf(e).json
         /\ FrameOf(e).method \notin Methods \cup {NoString}) =>
            /\ IsError(e, MethodNotFound)
            /\ e.resp.id = (IF FrameOf(e).hasId THEN FrameOf(e).id ELSE 0)

\* C19: a notifications/initialized message gets the empty string from
\* ProcessMessage, nothing is written for it, and the frames after it are
\* processed.
C19_NotificationHasNoReply ==
    /\ [](\A e \in Entries :
            HasMethod(e, "notifications/initialized") =>
                (e.resp = EmptyString /\ e.to = Null /\ ~e.ok))
    /\ [][(/\ Messages # <<>> /\ IsCompleteText(Head(Messages))
           /\ Head(Messages)[1].frame.json
           /\ Head(Messages)[1].frame.method = "notifications/initialized"
           /\ Messages' # Messages) =>
            /\ Messages' = Tail(Messages)
            /\ netPc' = "msgs"
            /\ crashed' = "no"]_vars

C19_Witness ==
    /\ Len(processed) = 2
    /\ HasMethod(processed[1], "notifications/initialized")
    /\ processed[1].to = Null
    /\ processed[2].ok

\* The names of the dispatch chain, and those of them that take a branch of
\* their own, with an invoker behind it.
DispatchNames == { DispatchBranches[i] : i \in DOMAIN DispatchBranches }

BranchOfName == [i \in DOMAIN DispatchBranches |-> Branch(DispatchBranches[i])]

NamesWithInvoker ==
    { DispatchBranches[i] : i \in { k \in DOMAIN DispatchBranches :
        /\ BranchOfName[k] # 0
        /\ DispatchBranches[BranchOfName[k]] = DispatchBranches[k]
        /\ ("Unknown tool: " \o DispatchBranches[k])
              \notin InvokerOutcomes(DispatchBranches[k], GetObjectField(TRUE)) } }

\* C20: the names a tools/list response carries are pairwise different and are
\* the names of the dispatch chain: each of them takes a branch with an invoker,
\* never the final else, each name of the chain is among them, and two
\* tools/list responses carry the same names in the same order.
C20_ListedNamesAreDispatched ==
    \A e \in Entries :
        HasMethod(e, "tools/list") =>
            LET Tools == e.resp.result.tools
                Listed == { Tools[i] : i \in DOMAIN Tools }
            IN  /\ Cardinality(Listed) = Len(Tools)
                /\ Listed = DispatchNames
                /\ Listed \subseteq NamesWithInvoker
                /\ \A f \in Entries :
                      HasMethod(f, "tools/list") => f.resp.result.tools = Tools

C20_Witness ==
    /\ Len(processed) = 2
    /\ HasMethod(processed[1], "tools/list") /\ processed[1].ok
    /\ HasMethod(processed[2], "tools/list") /\ processed[2].ok
    /\ Len(processed[1].resp.result.tools) = Len(DispatchBranches)

\* C21: every initialize request is answered with a success whose result is
\* the same protocolVersion, capabilities and serverInfo, whatever was
\* processed before it; two initialize requests of one read get the same result.
C21_InitializeIsIdempotent ==
    \A e \in Entries :
        HasMethod(e, "initialize") =>
            /\ DOMAIN e.resp = {"jsonrpc", "id", "result"}
            /\ e.resp.result.protocolVersion = "2024-11-05"
            /\ e.resp.result.capabilities = [tools |-> <<>>]
            /\ e.resp.result.serverInfo = [name |-> "ue5-mcp-bridge", version |-> "3.2.0"]
            /\ \A f \in Entries :
                  HasMethod(f, "initialize") =>
                      ("result" \in DOMAIN f.resp /\ f.resp.result = e.resp.result)

C21_Witness ==
    /\ Len(processed) = 2
    /\ HasMethod(processed[1], "initialize") /\ processed[1].ok
    /\ HasMethod(processed[2], "initialize") /\ processed[2].ok
    /\ processed[1].msg # processed[2].msg
    /\ processed[1].resp.result = processed[2].resp.result

\* C22: a tools/list request gets the list of tools and a tools/call request
\* gets the result of its tool, with the id of the request, whether an
\* initialize request or a notifications/initialized message was processed
\* before it or not.
C22_HandshakeDoesNotGate ==
    \A e \in Entries :
        LET Id == IF FrameOf(e).hasId THEN FrameOf(e).id ELSE 0
        IN  /\ HasMethod(e, "tools/list") =>
                  e.resp = [jsonrpc |-> "2.0", id |-> Id,
                            result |-> [tools |-> RegisteredTools]]
            /\ (HasMethod(e, "tools/call") /\ FrameOf(e).name = "get_actor_list") =>
                  /\ DOMAIN e.resp = {"jsonrpc", "id", "result"}
                  /\ e.resp.id = Id
                  /\ e.resp.result.content[1].text
                        \in {"Found 0 actors:", "Error: No world available"}

C22_Witness ==
    /\ Len(processed) = 2
    /\ \/ HasMethod(processed[1], "initialize")
       \/ HasMethod(processed[1], "notifications/initialized")
    /\ \/ HasMethod(processed[2], "tools/list")
       \/ HasMethod(processed[2], "tools/call")
    /\ processed[2].ok /\ "result" \in DOMAIN processed[2].resp

\* The newline-terminated frames of a text, in order, empty lines left out.
RECURSIVE TerminatedFrames(_)
TerminatedFrames(text) ==
    IF \A k \in DOMAIN text : text[k] # NL
    THEN <<>>
    ELSE LET k == CHOOSE n \in DOMAIN text :
                      text[n] = NL /\ \A j \in 1..(n - 1) : text[j] # NL
             rest == TerminatedFrames(SubSeq(text, k + 1, Len(text)))
         IN  IF k = 1 THEN rest ELSE <<SubSeq(text, 1, k - 1)>> \o rest

\* C23: a read of newline-terminated frames leaves exactly its non-empty lines
\* to be processed, in arrival order, and when the loop over them ends the
\* responses are as many as the frames that are not notifications/initialized.
C23_EveryFrameOfAReadIsProcessed ==
    /\ [][(/\ netPc = "client" /\ netPc' = "msgs"
           /\ inbuf[ClientSocket][Len(inbuf[ClientSocket])] = NL) =>
             Messages' = TerminatedFrames(inbuf[ClientSocket])]_vars
    /\ []((netPc = "msgs" /\ Messages = <<>>) =>
             Cardinality({ i \in DOMAIN processed : processed[i].resp # EmptyString })
               = Cardinality({ i \in DOMAIN processed :
                                 ~HasMethod(processed[i], "notifications/initialized") }))

\* The entry is the answer to a protocol fault: a parse error, an invalid
\* request, invalid params or an unknown method.
IsProtocolFault(e) ==
    \E code \in {ParseError, InvalidRequest, InvalidParams, MethodNotFound} :
        IsError(e, code)

\* C24: the step that answers a protocol fault changes neither the members of
\* the server nor the connections, and leaves the loop over the frames running;
\* a frame processed after a protocol fault gets the response ProcessMessage
\* gives for that frame alone, written to the socket the fault was answered on.
C24_ProtocolFaultsAreLocal ==
    /\ [][(/\ processed' # processed /\ processed' # <<>>
           /\ IsProtocolFault(processed'[Len(processed')])) =>
            /\ server' = server
            /\ connState' = connState
            /\ peerOpen' = peerOpen
            /\ netPc' = "msgs"
            /\ crashed' = "no"]_vars
    /\ [](\A i, j \in DOMAIN processed :
            (i < j /\ IsProtocolFault(processed[i])) =>
                LET e == processed[j]
                    R == ProcessMessage(e.msg)
                IN  /\ R.kind = "reply" => e.resp = R.resp
                    /\ R.kind = "invoke" =>
                          /\ e.resp.id = R.Id
                          /\ e.resp.result.content[1].text
                                \in InvokerOutcomes(R.ToolName, R.Args)
                    /\ e.to \in {Null, processed[i].to})

C24_Witness ==
    /\ Len(processed) = 2
    /\ IsError(processed[1], MethodNotFound) /\ processed[1].ok
    /\ "result" \in DOMAIN processed[2].resp /\ processed[2].ok
    /\ processed[2].to = processed[1].to
    /\ bIsRunning /\ ListenerSocket = "socket" /\ ClientSocket = processed[1].to

\* The step is a call of Start that returned: the game thread is idle before and
\* after it, and the returned value or a member only Start assigns has changed.
StartReturned ==
    /\ gamePc = "idle" /\ gamePc' = "idle"
    /\ <<StartResult, ServerPort, bShouldStop, bIsRunning>>'
          # <<StartResult, ServerPort, bShouldStop, bIsRunning>>

\* C25: a Start on a running server returns false and changes nothing: the
\* listening socket, the network thread, the client connection, the port and
\* the flags are as they were.
C25_StartWhileRunningChangesNothing ==
    [][(bIsRunning /\ StartReturned) =>
        /\ StartResult' = "false"
        /\ server' = server
        /\ net' = net
        /\ world' = world
        /\ <<closurePos, GameThreadTasks>>' = <<closurePos, GameThreadTasks>>]_vars

C25_Witness ==
    /\ bIsRunning /\ StartResult = "false" /\ gamePc = "idle"
    /\ ListenerSocket = "socket" /\ Thread /\ netPc \notin {"none", "done"}
    /\ ClientSocket # Null /\ connState[ClientSocket] = "accepted"
    /\ ServerPort = DefaultPort + 1

\* C26: a Start that fails on a server that is not running returns false and
\* leaves it not running, with no listening socket and no network thread, the
\* process alive and the game thread free to call Start again.
C26_FailedStartLeavesServerStopped ==
    [][(~bIsRunning /\ StartReturned /\ StartResult' = "false") =>
        /\ ~bIsRunning'
        /\ ListenerSocket' = "nullptr"
        /\ Thread' = Thread /\ netPc' = netPc
        /\ (netPc = "none" => ~Thread')
        /\ crashed' = "no"
        /\ gamePc' = "idle"]_vars

C26_Witness ==
    /\ StartResult = "false" /\ ~bIsRunning /\ ~bShouldStop /\ gamePc = "idle"
    /\ ListenerSocket = "nullptr" /\ ~Thread /\ netPc = "none"
    /\ sends > 0 /\ crashed = "no"

\* The client of the connection the server holds has closed or broken it.
Disconnected(c) == ClientSocket = c /\ connState[c] = "accepted" /\ ~peerOpen[c]

\* C27: once the client of the held connection has closed it, the server
\* eventually destroys the socket and lets go of it; and the check of the
\* connection state releases a socket only if its peer is gone, destroys it and
\* leaves ClientSocket null.
C27_DisconnectIsDetected ==
    /\ \A c \in Conns : Disconnected(c) ~> (ClientSocket # c /\ connState[c] = "closed")
    /\ [][(netPc = "client" /\ netPc' = "loop" /\ ClientSocket # Null
           /\ ClientSocket' # ClientSocket) =>
            /\ ~peerOpen[ClientSocket]
            /\ connState'[ClientSocket] = "closed"
            /\ ClientSocket' = Null]_vars

\* A response was written for the entry and the Send failed.
SendFailed(e) == e.to # Null /\ ~e.ok

\* C28: the step in which a Send fails takes the frame off the frames still to
\* be processed and leaves the rest of them, the connection handle, the
\* connection and the loop as they are; after it the frames of the read are
\* only ever taken off, never put back, so no response is sent twice.
C28_FailedSendIsNotRetried ==
    /\ [][(/\ processed' # processed /\ processed' # <<>>
           /\ SendFailed(processed'[Len(processed')])) =>
            /\ Len(processed') = Len(processed) + 1
            /\ Messages' = Tail(Messages)
            /\ ClientSocket' = ClientSocket
            /\ connState' = connState
            /\ netPc' = "msgs"
            /\ crashed' = "no"]_vars
    /\ [][(\E i \in DOMAIN processed : SendFailed(processed[i])) =>
            \/ processed' = <<>>
            \/ /\ \/ Messages' = Messages
                  \/ Messages # <<>> /\ Messages' = Tail(Messages)
               /\ Len(processed') >= Len(processed)
               /\ SubSeq(processed', 1, Len(processed)) = processed]_vars

C28_Witness ==
    /\ Len(processed) = 2
    /\ SendFailed(processed[1])
    /\ processed[2].to = processed[1].to
    /\ processed[2].msg # processed[1].msg
    /\ ClientSocket = processed[1].to /\ connState[ClientSocket] = "accepted"
    /\ crashed = "no"

\* One JSON-RPC response: jsonrpc "2.0", a numeric id, and either a result or
\* an error with a numeric code and a message.
IsEnvelope(r) ==
    /\ DOMAIN r \in {{"jsonrpc", "id", "result"}, {"jsonrpc", "id", "error"}}
    /\ r.jsonrpc = "2.0"
    /\ r.id \in Int
    /\ "error" \in DOMAIN r =>
          (DOMAIN r.error = {"code", "message"} /\ r.error.code \in Int)

\* C29: whatever is handed to Send is one envelope followed by one newline,
\* and for an empty response nothing is handed to Send.
C29_WrittenResponsesAreEnvelopes ==
    \A e \in Entries :
        /\ e.to = Null <=> e.wire = <<>>
        /\ e.resp = EmptyString => e.wire = <<>>
        /\ e.wire # <<>> =>
              /\ Len(e.wire) = 2
              /\ e.wire[2] = NL
              /\ IsEnvelope(e.wire[1])

C29_Witness ==
    /\ Len(processed) = 2
    /\ processed[1].ok /\ "error" \in DOMAIN processed[1].wire[1]
    /\ processed[2].ok /\ "result" \in DOMAIN processed[2].wire[1]
    /\ processed[1].wire[2] = NL /\ processed[2].wire[2] = NL

\* C30: a Stop that was called returns: the game thread is never inside Stop,
\* waiting for the network thread to leave Run, while the network thread
\* waits for a closure that only the game thread can run.
C30_StopTerminates ==
    ~(/\ gamePc = "stop_join" /\ Thread
      /\ netPc = "wait" /\ ~CompletionEvent
      /\ GameThreadTasks # <<>> /\ closurePos = 0
      /\ crashed = "no")

\* C31: the network thread never calls a method of ListenerSocket or
\* ClientSocket after Stop has destroyed the socket and nulled the member.
C31_NoSocketUseAfterStop == crashed # "nullptr"

\* C32: the closure touches HandleToolsCall's locals only while HandleToolsCall
\* is at its wait: a closure is queued or running only then, it writes
\* ResultText only then and before the event is triggered, and triggering the
\* event is the last thing it does, with the event not yet back in the pool.
C32_ClosureOnlyTouchesLiveLocals ==
    /\ []((GameThreadTasks # <<>> \/ gamePc = "closure") =>
            (netPc = "wait" /\ call # <<>>))
    /\ [][(resultWrites' = resultWrites + 1) =>
            (netPc = "wait" /\ netPc' = "wait" /\ call # <<>> /\ ~CompletionEvent)]_vars
    /\ [][(~CompletionEvent /\ CompletionEvent') =>
            /\ netPc = "wait" /\ netPc' = "wait" /\ call # <<>>
            /\ GameThreadTasks' = <<>> /\ gamePc' = "idle" /\ closurePos' = 0]_vars
    /\ [][(netPc = "wait" /\ netPc' # "wait") =>
            (CompletionEvent /\ GameThreadTasks = <<>> /\ gamePc # "closure")]_vars

C32_Witness ==
    /\ netPc = "wait" /\ CompletionEvent /\ call # <<>>
    /\ GameThreadTasks = <<>> /\ closurePos = 0
    /\ ResultText = "Executed: command" /\ resultWrites = 1

\* No call of Start or Stop is in progress.
NoCallInProgress == ~GameThreadInStop

C34_StoppedServerHoldsNothing ==
    (NoCallInProgress /\ ~bIsRunning /\ crashed = "no") =>
        (ClientSocket = Null /\ ListenerSocket = "nullptr" /\ ~Thread)

StartSucceeded ==
    /\ gamePc = "idle" /\ gamePc' = "idle" /\ StartResult' = "true"
    /\ <<StartResult, ServerPort, bIsRunning, bShouldStop, pendingStart>>'
          # <<StartResult, ServerPort, bIsRunning, bShouldStop, pendingStart>>

\* C36: under the module's operations a network thread and a listening socket
\* are created only when the server holds neither, a thread that runs is the
\* one the server has the handle of, and the Start inside StartServer and
\* RestartServer runs on a server that is completely stopped.
C36_AtMostOneThreadAndListener ==
    /\ [][StartSucceeded =>
            /\ ~Thread /\ netPc = "none"
            /\ ListenerSocket = "nullptr"
            /\ ~bIsRunning]_vars
    /\ [][(pendingStart # Null /\ pendingStart' = Null) =>
            (~bIsRunning /\ ~Thread /\ netPc = "none" /\ ListenerSocket = "nullptr")]_vars
    /\ [](netPc # "none" => Thread)

C36_Witness ==
    /\ pendingStart = DefaultPort + 1 /\ gamePc = "idle" /\ crashed = "no"
    /\ StartResult = "true" /\ ServerPort = DefaultPort
    /\ ~Thread /\ netPc = "none" /\ ListenerSocket = "nullptr" /\ ~bIsRunning
    /\ sends > 0

\* C37: a Start that returns false leaves the port GetPort() reports as it
\* was before the call.
C37_FailedStartKeepsPort ==
    [][(StartReturned /\ StartResult' = "false") => ServerPort' = ServerPort]_vars

\* A bookmark invoker has run in this step.
BookmarkToolRan == bookmarkCall'.n # bookmarkCall.n

\* The slot of 0..9 nearest to an integer.
NearestSlot(n) ==
    CHOOSE s \in 0..(NumSlots - 1) :
        \A u \in 0..(NumSlots - 1) :
            (IF s < n THEN n - s ELSE s - n) <= (IF u < n THEN n - u ELSE u - n)

\* C38: the bookmark tools behave as ten slots 0..9. Whatever integer the slot
\* argument is, the slot an invoker uses is one of 0..9 (the nearest one for an
\* argument an int32 holds) and every access to the bookmark array is within
\* it; jump_to_bookmark succeeds only on a slot that was set and not cleared
\* since, and on any other slot it returns the "is not set" error and leaves
\* the camera where it is.
C38_BookmarksAreTenSlots ==
    /\ [](/\ bookmarkCall.Slot \in 0..(NumSlots - 1)
          /\ bookmarkCall.inBounds
          /\ (bookmarkCall.tool \notin {"none", "list_bookmarks"}
              /\ bookmarkCall.arg.fits)
                => bookmarkCall.Slot = NearestSlot(bookmarkCall.arg.n)
          /\ Len(ViewportBookmarks) \in {0, NumSlots})
    /\ [][(BookmarkToolRan /\ bookmarkCall'.tool = "jump_to_bookmark") =>
            /\ bookmarkCall'.msg = "Jumped to bookmark %d '%s'"
                 => bookmarkCall'.Slot \in setSince
            /\ bookmarkCall'.Slot \notin setSince
                 => /\ bookmarkCall'.msg = "Error: Bookmark %d is not set"
                    /\ bookmarkCall'.args = <<bookmarkCall'.Slot>>
                    /\ ViewLocation' = ViewLocation
                    /\ ViewRotation' = ViewRotation]_vars

\* A jump with a slot argument above the slots has succeeded on slot 9 and
\* moved the camera to where it was saved, while slot 0 was set and cleared.
C38_Witness ==
    /\ bookmarkCall.tool = "jump_to_bookmark" /\ bookmarkCall.arg = Fits(10)
    /\ bookmarkCall.msg = "Jumped to bookmark %d '%s'" /\ bookmarkCall.Slot = 9
    /\ Len(ViewportBookmarks) = NumSlots
    /\ ViewLocation = ViewportBookmarks[10].Location
    /\ ~ViewportBookmarks[1].bIsSet /\ ViewportBookmarks[1].Location # "uninit"
    /\ 0 \notin setSince
====
